---------------------------- MODULE Spec2Model ----------------------------
(***************************************************************************)
(* CanisterManager (src/src/CanisterManager.ts): a URL resolver for ICP    *)
(* canisters.  A manager is constructed once from a configuration and then *)
(* answers five queries; three of them read the ambient global `window`.   *)
(*                                                                         *)
(* JavaScript strings are modelled as sequences of one-character strings,  *)
(* so that String.prototype.includes, toLowerCase, template literals and   *)
(* number formatting are computed rather than assumed.  An optional value  *)
(* (a property that may be undefined) is a sequence of length 0 or 1.      *)
(***************************************************************************)
EXTENDS Integers, Sequences, FiniteSets, TLC

VARIABLES
    dfxNetwork,            \* private dfxNetwork: string
    localIPAddress,        \* private localIPAddress: string
    replicaPort,           \* private replicaPort: number
    canisterPort,          \* private canisterPort: number
    internetIdentityPort,  \* private internetIdentityPort: number
    window,                \* the ambient global `window` binding of the host
    call,                  \* the last query made under the current ambient
                           \* context: operation, argument and outcome
    givenConfig,           \* the object the constructor was called with
    earlier,               \* a result the caller kept from an earlier query,
                           \* with the ambient context it was obtained under
    actors                 \* the actors createActor has returned, each with
                           \* the promises its agent's fetchRootKey started

fields == <<dfxNetwork, localIPAddress, replicaPort, canisterPort,
            internetIdentityPort>>
vars == <<dfxNetwork, localIPAddress, replicaPort, canisterPort,
          internetIdentityPort, window, call, givenConfig, earlier,
          actors>>

-----------------------------------------------------------------------------
(* Optional values and completion records of an evaluation.                *)

None == <<>>
Some(x) == <<x>>

Return(v) == [kind |-> "return", value |-> v]
Throw(e) == [kind |-> "throw", value |-> e]

Returned(r, v) == r.kind = "return" /\ r.value = v
Threw(r) == r.kind = "throw"

-----------------------------------------------------------------------------
(* String literals of the source.                                          *)

S_https == <<"h", "t", "t", "p", "s", ":", "/", "/">>
S_http == <<"h", "t", "t", "p", ":", "/", "/">>
S_ic0app == <<".", "i", "c", "0", ".", "a", "p", "p">>
S_icp0io == <<".", "i", "c", "p", "0", ".", "i", "o">>
S_identity == <<"h", "t", "t", "p", "s", ":", "/", "/", "i", "d", "e", "n",
                "t", "i", "t", "y", ".", "i", "c", "0", ".", "a", "p", "p">>
S_httpLocalhostColon == <<"h", "t", "t", "p", ":", "/", "/", "l", "o", "c",
                          "a", "l", "h", "o", "s", "t", ":">>
S_dotLocalhostColon == <<".", "l", "o", "c", "a", "l", "h", "o", "s", "t",
                         ":">>
S_query == <<"/", "?", "c", "a", "n", "i", "s", "t", "e", "r", "I", "d",
             "=">>
S_colon == <<":">>
S_localhost == <<"l", "o", "c", "a", "l", "h", "o", "s", "t">>
S_chrome == <<"c", "h", "r", "o", "m", "e">>
S_local == <<"l", "o", "c", "a", "l">>
S_empty == <<>>

-----------------------------------------------------------------------------
(* JavaScript primitives used by the source.                               *)

\* String.prototype.includes(searchString), position 0
Includes(s, t) ==
    \E i \in 0..(Len(s) - Len(t)) : SubSeq(s, i + 1, i + Len(t)) = t

UpperCase == <<"A", "B", "C", "D", "E", "F", "G", "H", "I", "J", "K", "L",
               "M", "N", "O", "P", "Q", "R", "S", "T", "U", "V", "W", "X",
               "Y", "Z">>
LowerCase == <<"a", "b", "c", "d", "e", "f", "g", "h", "i", "j", "k", "l",
               "m", "n", "o", "p", "q", "r", "s", "t", "u", "v", "w", "x",
               "y", "z">>

ToLowerChar(c) ==
    IF \E i \in 1..Len(UpperCase) : UpperCase[i] = c
    THEN LowerCase[CHOOSE i \in 1..Len(UpperCase) : UpperCase[i] = c]
    ELSE c

\* String.prototype.toLowerCase()
ToLowerCase(s) == [i \in 1..Len(s) |-> ToLowerChar(s[i])]

Digits == <<"0", "1", "2", "3", "4", "5", "6", "7", "8", "9">>

\* Number::toString of an integer, as a template literal `${n}` applies it
RECURSIVE NumberToString(_)
NumberToString(n) ==
    IF n < 0 THEN <<"-">> \o NumberToString(0 - n)
    ELSE IF n < 10 THEN <<Digits[n + 1]>>
    ELSE NumberToString(n \div 10) \o <<Digits[(n % 10) + 1]>>

-----------------------------------------------------------------------------
(* Inputs: the configurations, canister ids and ambient contexts explored. *)

DefaultReplicaPort == 4943
DefaultCanisterPort == 14943
DefaultInternetIdentityPort == 24943

N_ic == <<"i", "c">>
N_Local == <<"L", "o", "c", "a", "l">>
Networks == {S_local, N_ic, S_empty, N_Local}

A_lan == <<"1", "9", "2", ".", "1", "6", "8", ".", "0", ".", "2", "1", "0">>
Addresses == {A_lan, S_localhost}

\* an optional port of the configuration object: omitted, or a number
ReplicaPortChoices == {None, Some(8000)}
CanisterPortChoices == {None, Some(8443)}
InternetIdentityPortChoices == {None, Some(9443)}

Configs ==
    [dfxNetwork : Networks, localIPAddress : Addresses,
     replicaPort : ReplicaPortChoices, canisterPort : CanisterPortChoices,
     internetIdentityPort : InternetIdentityPortChoices]

I_abc == <<"a", "b", "c">>
I_x1 == <<"x", "-", "1">>
CanisterIds == {I_abc, I_x1, S_empty}

O_localhost3000 == <<"h", "t", "t", "p", ":", "/", "/", "l", "o", "c", "a",
                     "l", "h", "o", "s", "t", ":", "3", "0", "0", "0">>
O_lan3000 == <<"h", "t", "t", "p", "s", ":", "/", "/", "1", "9", "2", ".",
               "1", "6", "8", ".", "0", ".", "2", "1", "0", ":", "3", "0",
               "0", "0">>
O_example == <<"h", "t", "t", "p", "s", ":", "/", "/", "e", "x", "a", "m",
               "p", "l", "e", ".", "c", "o", "m">>
O_upperLocalhost == <<"h", "t", "t", "p", ":", "/", "/", "L", "O", "C", "A",
                      "L", "H", "O", "S", "T", ":", "3", "0", "0", "0">>
O_appLocalhost == <<"h", "t", "t", "p", ":", "/", "/", "a", "p", "p", ".",
                    "l", "o", "c", "a", "l", "h", "o", "s", "t">>
Origins == {O_localhost3000, O_lan3000, O_example, O_upperLocalhost,
            O_appLocalhost, S_empty}

U_Chrome == <<"C", "h", "r", "o", "m", "e">>
U_Safari == <<"S", "a", "f", "a", "r", "i">>
U_Firefox == <<"F", "i", "r", "e", "f", "o", "x">>
U_mozillaCHROME == <<"M", "o", "z", "i", "l", "l", "a", "/", "5", ".", "0",
                     " ", "C", "H", "R", "O", "M", "E", "/", "1", "2", "0">>
U_chrom == <<"c", "h", "r", "o", "m">>
UserAgents == {U_Chrome, S_chrome, U_Safari, U_Firefox, U_mozillaCHROME,
               U_chrom, S_empty}

\* window.location: undefined, or an object whose origin may be undefined
Locations ==
    {None} \cup {Some([origin |-> o]) :
                    o \in {None} \cup {Some(s) : s \in Origins}}

\* window.navigator: undefined, or an object whose userAgent may be undefined
Navigators ==
    {None} \cup {Some([userAgent |-> u]) :
                    u \in {None} \cup {Some(s) : s \in UserAgents}}

\* The global `window`: no binding at all (Node.js), a binding holding
\* undefined, or a binding holding an object.
WindowUndeclared == [declared |-> FALSE, value |-> None]
WindowUndefined == [declared |-> TRUE, value |-> None]
WindowObjects ==
    {[declared |-> TRUE, value |-> Some([location |-> l, navigator |-> n])] :
        l \in Locations, n \in Navigators}
Windows == {WindowUndeclared, WindowUndefined} \cup WindowObjects

\* createMockWindow(origin, userAgent) of the test suite
createMockWindow(origin, userAgent) ==
    [declared |-> TRUE,
     value |-> Some([location |-> Some([origin |-> Some(origin)]),
                     navigator |-> Some([userAgent |-> Some(userAgent)])])]

\* the ambient origin / user agent, when the host provides one
HasOrigin(win) ==
    /\ win.declared /\ win.value # None
    /\ win.value[1].location # None
    /\ win.value[1].location[1].origin # None
OriginOf(win) == win.value[1].location[1].origin[1]
HasUserAgent(win) ==
    /\ win.declared /\ win.value # None
    /\ win.value[1].navigator # None
    /\ win.value[1].navigator[1].userAgent # None
UserAgentOf(win) == win.value[1].navigator[1].userAgent[1]

-----------------------------------------------------------------------------
(* The class.                                                              *)

\* a destructured parameter with a default: `name = dflt`
Default(opt, dflt) == IF opt = None THEN dflt ELSE opt[1]

\* mutant: the canister port default derived from the replica port
constructor_derivedDefault(config) ==
    [dfxNetwork |-> config.dfxNetwork,
     localIPAddress |-> config.localIPAddress,
     replicaPort |-> Default(config.replicaPort, DefaultReplicaPort),
     canisterPort |->
         Default(config.canisterPort,
                 Default(config.replicaPort, DefaultReplicaPort) + 10000),
     internetIdentityPort |->
         Default(config.internetIdentityPort, DefaultInternetIdentityPort)]

\* constructor({dfxNetwork, localIPAddress, replicaPort = 4943,
\*              canisterPort = 14943, internetIdentityPort = 24943})
constructor(config) ==
    [dfxNetwork |-> config.dfxNetwork,
     localIPAddress |-> config.localIPAddress,
     replicaPort |-> Default(config.replicaPort, DefaultReplicaPort),
     canisterPort |-> Default(config.canisterPort, DefaultCanisterPort),
     internetIdentityPort |->
         Default(config.internetIdentityPort, DefaultInternetIdentityPort)]

\* the object the methods see as `this`
this ==
    [dfxNetwork |-> dfxNetwork, localIPAddress |-> localIPAddress,
     replicaPort |-> replicaPort, canisterPort |-> canisterPort,
     internetIdentityPort |-> internetIdentityPort]

\* window?.location?.origin?.includes('localhost')
\* Resolving the identifier `window` throws a ReferenceError when the host
\* has no such binding; `?.` only guards undefined and null values.
originIncludesLocalhost(win) ==
    IF ~win.declared THEN Throw("ReferenceError")
    ELSE IF win.value = None THEN Return(None)
    ELSE IF win.value[1].location = None THEN Return(None)
    ELSE IF win.value[1].location[1].origin = None THEN Return(None)
    ELSE Return(Some(Includes(win.value[1].location[1].origin[1],
                              S_localhost)))

\* window?.navigator?.userAgent?.toLowerCase() || ''
userAgentLowerCase(win) ==
    IF ~win.declared THEN Throw("ReferenceError")
    ELSE IF win.value = None THEN Return(S_empty)
    ELSE IF win.value[1].navigator = None THEN Return(S_empty)
    ELSE IF win.value[1].navigator[1].userAgent = None THEN Return(S_empty)
    ELSE Return(ToLowerCase(win.value[1].navigator[1].userAgent[1]))


\* the condition of an `if`: undefined and false are falsy
Truthy(opt) == opt = Some(TRUE)


\* mutant: the subdomain URL built on the SSL canister port
getLocalhostSubdomainCanisterURL_canisterPort(self, canisterId) ==
    Return(S_http \o canisterId \o S_dotLocalhostColon
           \o NumberToString(self.canisterPort))

getLocalhostSubdomainCanisterURL(self, canisterId) ==
    Return(S_http \o canisterId \o S_dotLocalhostColon
           \o NumberToString(self.replicaPort))


\* mutant: the user agent matched without lower-casing it
isLocalhostSubdomainSupported_caseSensitive(win) ==
    LET origin == originIncludesLocalhost(win) IN
    IF Threw(origin) THEN origin
    ELSE IF ~Truthy(origin.value) THEN Return(FALSE)
    ELSE IF HasUserAgent(win) /\ Includes(UserAgentOf(win), S_chrome)
         THEN Return(TRUE)
         ELSE Return(FALSE)

isLocalhostSubdomainSupported(win) ==
    LET origin == originIncludesLocalhost(win) IN
    IF Threw(origin) THEN origin
    ELSE IF ~Truthy(origin.value) THEN Return(FALSE)
    ELSE LET userAgent == userAgentLowerCase(win) IN
         IF Threw(userAgent) THEN userAgent
         ELSE IF Includes(userAgent.value, S_chrome) THEN Return(TRUE)
         ELSE Return(FALSE)


\* mutant: the network name compared without regard to case
getBackendCanisterURL_foldedNetwork(self, win, canisterId) ==
    IF ToLowerCase(self.dfxNetwork) # S_local
    THEN Return(S_https \o canisterId \o S_ic0app)
    ELSE LET origin == originIncludesLocalhost(win) IN
         IF Threw(origin) THEN origin
         ELSE IF Truthy(origin.value)
         THEN Return(S_httpLocalhostColon \o NumberToString(self.replicaPort)
                     \o S_query \o canisterId)
         ELSE Return(S_https \o self.localIPAddress \o S_colon
                     \o NumberToString(self.canisterPort)
                     \o S_query \o canisterId)

\* mutant: local mode without the localhost branch
getBackendCanisterURL_noLocalhostBranch(self, win, canisterId) ==
    IF self.dfxNetwork # S_local
    THEN Return(S_https \o canisterId \o S_ic0app)
    ELSE LET origin == originIncludesLocalhost(win) IN
         IF Threw(origin) THEN origin
         ELSE Return(S_https \o self.localIPAddress \o S_colon
                     \o NumberToString(self.canisterPort)
                     \o S_query \o canisterId)

\* mutant: the external URL built on the replica port
getBackendCanisterURL_replicaPort(self, win, canisterId) ==
    IF self.dfxNetwork # S_local
    THEN Return(S_https \o canisterId \o S_ic0app)
    ELSE LET origin == originIncludesLocalhost(win) IN
         IF Threw(origin) THEN origin
         ELSE IF Truthy(origin.value)
         THEN Return(S_httpLocalhostColon \o NumberToString(self.replicaPort)
                     \o S_query \o canisterId)
         ELSE Return(S_https \o self.localIPAddress \o S_colon
                     \o NumberToString(self.replicaPort)
                     \o S_query \o canisterId)

\* mutant: the backend URL chosen the way the frontend URL is
getBackendCanisterURL_subdomain(self, win, canisterId) ==
    IF self.dfxNetwork # S_local
    THEN Return(S_https \o canisterId \o S_ic0app)
    ELSE LET supported == isLocalhostSubdomainSupported(win) IN
         IF Threw(supported) THEN supported
         ELSE IF supported.value
         THEN getLocalhostSubdomainCanisterURL(self, canisterId)
         ELSE LET origin == originIncludesLocalhost(win) IN
              IF Truthy(origin.value)
              THEN Return(S_httpLocalhostColon
                          \o NumberToString(self.replicaPort)
                          \o S_query \o canisterId)
              ELSE Return(S_https \o self.localIPAddress \o S_colon
                          \o NumberToString(self.canisterPort)
                          \o S_query \o canisterId)

getBackendCanisterURL(self, win, canisterId) ==
    IF self.dfxNetwork # S_local
    THEN Return(S_https \o canisterId \o S_ic0app)
    ELSE LET origin == originIncludesLocalhost(win) IN
         IF Threw(origin) THEN origin
         ELSE IF Truthy(origin.value)
         THEN Return(S_httpLocalhostColon \o NumberToString(self.replicaPort)
                     \o S_query \o canisterId)
         ELSE Return(S_https \o self.localIPAddress \o S_colon
                     \o NumberToString(self.canisterPort)
                     \o S_query \o canisterId)


\* mutant: the subdomain form chosen on the origin alone, as the backend does
getFrontendCanisterURL_originOnly(self, win, canisterId) ==
    IF self.dfxNetwork # S_local
    THEN Return(S_https \o canisterId \o S_ic0app)
    ELSE LET origin == originIncludesLocalhost(win) IN
         IF Threw(origin) THEN origin
         ELSE IF Truthy(origin.value)
         THEN getLocalhostSubdomainCanisterURL(self, canisterId)
         ELSE Return(S_https \o self.localIPAddress \o S_colon
                     \o NumberToString(self.canisterPort)
                     \o S_query \o canisterId)

\* mutant: the browser check evaluated before the network test
getFrontendCanisterURL_hoistedCheck(self, win, canisterId) ==
    LET supported == isLocalhostSubdomainSupported(win) IN
    IF Threw(supported) THEN supported
    ELSE IF self.dfxNetwork # S_local
    THEN Return(S_https \o canisterId \o S_ic0app)
    ELSE IF supported.value
    THEN getLocalhostSubdomainCanisterURL(self, canisterId)
    ELSE Return(S_https \o self.localIPAddress \o S_colon
                \o NumberToString(self.canisterPort)
                \o S_query \o canisterId)

getFrontendCanisterURL(self, win, canisterId) ==
    IF self.dfxNetwork # S_local
    THEN Return(S_https \o canisterId \o S_ic0app)
    ELSE LET supported == isLocalhostSubdomainSupported(win) IN
         IF Threw(supported) THEN supported
         ELSE IF supported.value
         THEN getLocalhostSubdomainCanisterURL(self, canisterId)
         ELSE Return(S_https \o self.localIPAddress \o S_colon
                     \o NumberToString(self.canisterPort)
                     \o S_query \o canisterId)


\* mutant: production identity URL templated on the canister id
getInternetIdentityURL_perCanister(self, win, canisterId) ==
    IF self.dfxNetwork # S_local
    THEN Return(S_https \o canisterId \o S_ic0app)
    ELSE LET supported == isLocalhostSubdomainSupported(win) IN
         IF Threw(supported) THEN supported
         ELSE IF supported.value
         THEN getLocalhostSubdomainCanisterURL(self, canisterId)
         ELSE Return(S_https \o self.localIPAddress \o S_colon
                     \o NumberToString(self.internetIdentityPort)
                     \o S_query \o canisterId)

\* mutant: the local fallback built on the canister port
getInternetIdentityURL_canisterPort(self, win, canisterId) ==
    IF self.dfxNetwork # S_local
    THEN Return(S_identity)
    ELSE LET supported == isLocalhostSubdomainSupported(win) IN
         IF Threw(supported) THEN supported
         ELSE IF supported.value
         THEN getLocalhostSubdomainCanisterURL(self, canisterId)
         ELSE Return(S_https \o self.localIPAddress \o S_colon
                     \o NumberToString(self.canisterPort)
                     \o S_query \o canisterId)

getInternetIdentityURL(self, win, canisterId) ==
    IF self.dfxNetwork # S_local
    THEN Return(S_identity)
    ELSE LET supported == isLocalhostSubdomainSupported(win) IN
         IF Threw(supported) THEN supported
         ELSE IF supported.value
         THEN getLocalhostSubdomainCanisterURL(self, canisterId)
         ELSE Return(S_https \o self.localIPAddress \o S_colon
                     \o NumberToString(self.internetIdentityPort)
                     \o S_query \o canisterId)

-----------------------------------------------------------------------------
(* The second definition of the class in CanisterManager.ts, whose address *)
(* field is staticIpAddress.                                               *)

StaticIp_constructor(config) ==
    [dfxNetwork |-> config.dfxNetwork,
     staticIpAddress |-> config.staticIpAddress,
     replicaPort |-> Default(config.replicaPort, DefaultReplicaPort),
     canisterPort |-> Default(config.canisterPort, DefaultCanisterPort),
     internetIdentityPort |->
         Default(config.internetIdentityPort, DefaultInternetIdentityPort)]

StaticIp_getLocalhostSubdomainCanisterURL(self, canisterId) ==
    Return(S_http \o canisterId \o S_dotLocalhostColon
           \o NumberToString(self.replicaPort))

StaticIp_isLocalhostSubdomainSupported(win) ==
    LET origin == originIncludesLocalhost(win) IN
    IF Threw(origin) THEN origin
    ELSE IF ~Truthy(origin.value) THEN Return(FALSE)
    ELSE LET userAgent == userAgentLowerCase(win) IN
         IF Threw(userAgent) THEN userAgent
         ELSE IF Includes(userAgent.value, S_chrome) THEN Return(TRUE)
         ELSE Return(FALSE)

\* no localhost branch: the ambient context is not read
StaticIp_getBackendCanisterURL(self, win, canisterId) ==
    IF self.dfxNetwork # S_local
    THEN Return(S_https \o canisterId \o S_ic0app)
    ELSE Return(S_https \o self.staticIpAddress \o S_colon
                \o NumberToString(self.canisterPort)
                \o S_query \o canisterId)

StaticIp_getFrontendCanisterURL(self, win, canisterId) ==
    IF self.dfxNetwork # S_local
    THEN Return(S_https \o canisterId \o S_ic0app)
    ELSE LET supported == StaticIp_isLocalhostSubdomainSupported(win) IN
         IF Threw(supported) THEN supported
         ELSE IF supported.value
         THEN StaticIp_getLocalhostSubdomainCanisterURL(self, canisterId)
         ELSE Return(S_https \o self.staticIpAddress \o S_colon
                     \o NumberToString(self.canisterPort)
                     \o S_query \o canisterId)

StaticIp_getInternetIdentityURL(self, win, canisterId) ==
    IF self.dfxNetwork # S_local
    THEN Return(S_identity)
    ELSE LET supported == StaticIp_isLocalhostSubdomainSupported(win) IN
         IF Threw(supported) THEN supported
         ELSE IF supported.value
         THEN StaticIp_getLocalhostSubdomainCanisterURL(self, canisterId)
         ELSE Return(S_https \o self.staticIpAddress \o S_colon
                     \o NumberToString(self.internetIdentityPort)
                     \o S_query \o canisterId)

-----------------------------------------------------------------------------
(* The state machine: a manager, the host's ambient context, and queries.  *)

NoCall == [op |-> "none", arg |-> None,
           ret |-> [kind |-> "none", value |-> None]]

\* nothing kept from an earlier query
NoEarlier == [op |-> "none", arg |-> None,
              ret |-> [kind |-> "none", value |-> None],
              ctx |-> WindowUndeclared]

\* new CanisterManager(cfg) in a host whose ambient context is one of wins
Construct(cfgs, wins) ==
    /\ givenConfig \in cfgs
    /\ LET m == constructor(givenConfig) IN
           /\ dfxNetwork = m.dfxNetwork
           /\ localIPAddress = m.localIPAddress
           /\ replicaPort = m.replicaPort
           /\ canisterPort = m.canisterPort
           /\ internetIdentityPort = m.internetIdentityPort
    /\ window \in wins
    /\ call = NoCall
    /\ earlier = NoEarlier
    /\ actors = <<>>

Init == Construct(Configs, Windows)

\* the host replaces the ambient context (tests: global.window = ...);
\* no query has been made under the new context yet
SetWindowIn(wins) ==
    /\ \E win \in wins : win # window /\ window' = win
    /\ call' = NoCall
    /\ UNCHANGED <<fields, givenConfig, earlier, actors>>

SetWindow == SetWindowIn(Windows)

GetBackendCanisterURL ==
    /\ \E canisterId \in CanisterIds :
         call' = [op |-> "getBackendCanisterURL", arg |-> Some(canisterId),
                  ret |-> getBackendCanisterURL(this, window, canisterId)]
    /\ UNCHANGED <<fields, window, givenConfig, earlier, actors>>

\* mutant: a result kept from an earlier query served again without
\* consulting the ambient context
GetFrontendCanisterURL_cached ==
    /\ \E canisterId \in CanisterIds :
         call' = [op |-> "getFrontendCanisterURL", arg |-> Some(canisterId),
                  ret |-> IF /\ earlier.op = "getFrontendCanisterURL"
                             /\ earlier.arg = Some(canisterId)
                          THEN earlier.ret
                          ELSE getFrontendCanisterURL(this, window,
                                                      canisterId)]
    /\ UNCHANGED <<fields, window, givenConfig, earlier, actors>>

GetFrontendCanisterURL ==
    /\ \E canisterId \in CanisterIds :
         call' = [op |-> "getFrontendCanisterURL", arg |-> Some(canisterId),
                  ret |-> getFrontendCanisterURL(this, window, canisterId)]
    /\ UNCHANGED <<fields, window, givenConfig, earlier, actors>>

\* mutant: the query overwrites a field of the manager
GetInternetIdentityURL_assigning ==
    /\ \E canisterId \in CanisterIds :
         call' = [op |-> "getInternetIdentityURL", arg |-> Some(canisterId),
                  ret |-> getInternetIdentityURL(this, window, canisterId)]
    /\ canisterPort' = internetIdentityPort
    /\ UNCHANGED <<dfxNetwork, localIPAddress, replicaPort,
                   internetIdentityPort, window, givenConfig, earlier,
                   actors>>

GetInternetIdentityURL ==
    /\ \E canisterId \in CanisterIds :
         call' = [op |-> "getInternetIdentityURL", arg |-> Some(canisterId),
                  ret |-> getInternetIdentityURL(this, window, canisterId)]
    /\ UNCHANGED <<fields, window, givenConfig, earlier, actors>>

IsLocalhostSubdomainSupported ==
    /\ call' = [op |-> "isLocalhostSubdomainSupported", arg |-> None,
                ret |-> isLocalhostSubdomainSupported(window)]
    /\ UNCHANGED <<fields, window, givenConfig, earlier, actors>>

GetLocalhostSubdomainCanisterURL ==
    /\ \E canisterId \in CanisterIds :
         call' = [op |-> "getLocalhostSubdomainCanisterURL",
                  arg |-> Some(canisterId),
                  ret |-> getLocalhostSubdomainCanisterURL(this, canisterId)]
    /\ UNCHANGED <<fields, window, givenConfig, earlier, actors>>

Next ==
    \/ SetWindow
    \/ GetBackendCanisterURL
    \/ GetFrontendCanisterURL
    \/ GetInternetIdentityURL
    \/ IsLocalhostSubdomainSupported
    \/ GetLocalhostSubdomainCanisterURL

Spec == Init /\ [][Next]_vars

-----------------------------------------------------------------------------
(* A caller that keeps a result across later queries and context changes,  *)
(* as the test suite does: one manager, `global.window` reassigned between *)
(* queries.                                                                *)

HistoryConfigs ==
    {c \in Configs : /\ c.dfxNetwork \in {S_local, N_ic}
                     /\ c.localIPAddress = A_lan
                     /\ c.canisterPort = None
                     /\ c.internetIdentityPort = None}

HistoryWindows ==
    {WindowUndeclared,
     createMockWindow(O_localhost3000, U_Chrome),
     createMockWindow(O_localhost3000, U_Safari),
     createMockWindow(O_lan3000, U_Chrome),
     createMockWindow(O_example, U_Chrome)}

InitHistory == Construct(HistoryConfigs, HistoryWindows)

\* global.window = createMockWindow(...) between two queries
ChangeContext == SetWindowIn(HistoryWindows)

\* const url = manager.getFrontendCanisterURL(...): the caller keeps the
\* value it just received
KeepResult ==
    /\ call.op # "none"
    /\ earlier' = [op |-> call.op, arg |-> call.arg, ret |-> call.ret,
                   ctx |-> window]
    /\ earlier' # earlier
    /\ UNCHANGED <<fields, window, call, givenConfig, actors>>

NextHistory ==
    \/ ChangeContext
    \/ GetBackendCanisterURL
    \/ GetFrontendCanisterURL
    \/ GetInternetIdentityURL
    \/ IsLocalhostSubdomainSupported
    \/ GetLocalhostSubdomainCanisterURL
    \/ KeepResult

SpecHistory == InitHistory /\ [][NextHistory]_vars

-----------------------------------------------------------------------------
(* createActor and the promises it starts.                                 *)
(*                                                                         *)
(* An actor record holds the agent's host, the state of the promise        *)
(* returned by agent.fetchRootKey(), the state of the promise returned by  *)
(* .catch(...) on it, what the handler logged, which promise (if any) the  *)
(* value handed back to the caller carries, and the state of the root-key  *)
(* fetch when the caller last invoked the actor.                           *)

MaxActors == 2

\* the body of the .catch handler: warn, error, rethrow
\* the rethrown error rejects the promise .catch returned; nothing is
\* attached to that promise, so the host reports an unhandled rejection
catchHandler(actor) ==
    [actor EXCEPT !.logged = TRUE,
                  !.caught = "rejected",
                  !.unhandledRejection = TRUE]

\* mutant: root key fetched on every network except 'ic'
createActor_fetchUnlessIc(self, win, canisterId) ==
    LET host == getBackendCanisterURL(self, win, canisterId) IN
    IF Threw(host) THEN [ret |-> host, actor |-> None]
    ELSE LET local == self.dfxNetwork # N_ic
             actor ==
                 [canisterId |-> canisterId,
                  host |-> host.value,
                  fetchRootKey |-> IF local THEN "pending" ELSE "notStarted",
                  caught |-> IF local THEN "pending" ELSE "none",
                  logged |-> FALSE,
                  unhandledRejection |-> FALSE,
                  returnedPromise |-> "none",
                  usedWhile |-> "never"]
         IN  [ret |-> Return([canisterId |-> canisterId,
                              host |-> host.value,
                              promise |-> "none"]),
              actor |-> Some(actor)]

\* mutant: the root-key fetch settled before the actor is handed back
createActor_awaiting(self, win, canisterId) ==
    LET host == getBackendCanisterURL(self, win, canisterId) IN
    IF Threw(host) THEN [ret |-> host, actor |-> None]
    ELSE LET local == self.dfxNetwork = S_local
             actor ==
                 [canisterId |-> canisterId,
                  host |-> host.value,
                  fetchRootKey |->
                      IF local THEN "fulfilled" ELSE "notStarted",
                  caught |-> IF local THEN "fulfilled" ELSE "none",
                  logged |-> FALSE,
                  unhandledRejection |-> FALSE,
                  returnedPromise |-> "none",
                  usedWhile |-> "never"]
         IN  [ret |-> Return([canisterId |-> canisterId,
                              host |-> host.value,
                              promise |-> "none"]),
              actor |-> Some(actor)]

\* createActor({canisterId, interfaceFactory, identity}): the completion
\* the caller gets and, unless resolving the host threw, the new actor
createActor(self, win, canisterId) ==
    LET host == getBackendCanisterURL(self, win, canisterId) IN
    IF Threw(host) THEN [ret |-> host, actor |-> None]
    ELSE LET local == self.dfxNetwork = S_local
             actor ==
                 [canisterId |-> canisterId,
                  host |-> host.value,
                  fetchRootKey |-> IF local THEN "pending" ELSE "notStarted",
                  caught |-> IF local THEN "pending" ELSE "none",
                  logged |-> FALSE,
                  unhandledRejection |-> FALSE,
                  returnedPromise |-> "none",
                  usedWhile |-> "never"]
         IN  [ret |-> Return([canisterId |-> canisterId,
                              host |-> host.value,
                              promise |-> "none"]),
              actor |-> Some(actor)]

ActorConfigs ==
    {c \in Configs : /\ c.dfxNetwork \in {S_local, N_ic, N_Local}
                     /\ c.localIPAddress = A_lan
                     /\ c.canisterPort = None
                     /\ c.internetIdentityPort = None}

ActorWindows ==
    {WindowUndeclared,
     createMockWindow(O_localhost3000, U_Chrome),
     createMockWindow(O_lan3000, U_Chrome)}

ActorCanisterIds == {I_abc, I_x1}

InitActor == Construct(ActorConfigs, ActorWindows)

CreateActor ==
    /\ Len(actors) < MaxActors
    /\ \E canisterId \in ActorCanisterIds :
         LET r == createActor(this, window, canisterId) IN
           /\ call' = [op |-> "createActor", arg |-> Some(canisterId),
                       ret |-> r.ret]
           /\ actors' = IF r.actor = None THEN actors
                        ELSE Append(actors, r.actor[1])
           /\ call' # call \/ actors' # actors
    /\ UNCHANGED <<fields, window, givenConfig, earlier>>

\* the replica answers: the promise of fetchRootKey() fulfils, and so does
\* the promise .catch returned
FetchRootKeyFulfilled ==
    /\ \E i \in 1..Len(actors) :
         /\ actors[i].fetchRootKey = "pending"
         /\ actors' = [actors EXCEPT ![i].fetchRootKey = "fulfilled",
                                     ![i].caught = "fulfilled"]
    /\ UNCHANGED <<fields, window, call, givenConfig, earlier>>

\* the replica is not running: the promise of fetchRootKey() rejects
FetchRootKeyRejected ==
    /\ \E i \in 1..Len(actors) :
         /\ actors[i].fetchRootKey = "pending"
         /\ actors' = [actors EXCEPT ![i].fetchRootKey = "rejected"]
    /\ UNCHANGED <<fields, window, call, givenConfig, earlier>>

\* the .catch handler runs on the rejection
CatchHandler ==
    /\ \E i \in 1..Len(actors) :
         /\ actors[i].fetchRootKey = "rejected"
         /\ actors[i].caught = "pending"
         /\ actors' = [actors EXCEPT ![i] = catchHandler(actors[i])]
    /\ UNCHANGED <<fields, window, call, givenConfig, earlier>>

\* the caller invokes a method of an actor it was handed
UseActor ==
    /\ \E i \in 1..Len(actors) :
         /\ actors[i].usedWhile # actors[i].fetchRootKey
         /\ actors' = [actors EXCEPT ![i].usedWhile = actors[i].fetchRootKey]
    /\ UNCHANGED <<fields, window, call, givenConfig, earlier>>

NextActor ==
    \/ CreateActor
    \/ FetchRootKeyFulfilled
    \/ FetchRootKeyRejected
    \/ CatchHandler
    \/ UseActor

SpecActor == InitActor /\ [][NextActor]_vars

-----------------------------------------------------------------------------
(* Vocabulary of the properties.                                           *)

CalledWith(op) == call.op = op /\ call.arg # None
canisterIdArg == call.arg[1]

OnLocalhost(win) == HasOrigin(win) /\ Includes(OriginOf(win), S_localhost)
IsChrome(win) ==
    HasUserAgent(win) /\ Includes(ToLowerCase(UserAgentOf(win)), S_chrome)

\* 'https://' + host + ':' + port + '/?canisterId=' + id
HttpsQueryURL(host, port, id) ==
    S_https \o host \o <<":">> \o NumberToString(port) \o S_query \o id
\* 'http://' + id + '.localhost:' + port
SubdomainURL(id, port) ==
    S_http \o id \o <<".">> \o S_localhost \o <<":">> \o NumberToString(port)

-----------------------------------------------------------------------------
\* C1: for every canisterId and every dfxNetwork other than exactly 'local'
\* ('ic', '', 'Local'), getBackendCanisterURL returns
\* 'https://' + canisterId + '.ic0.app'.
C1_BackendProductionURL ==
    (CalledWith("getBackendCanisterURL") /\ dfxNetwork # S_local) =>
        Returned(call.ret, S_https \o canisterIdArg \o S_ic0app)

C1_Witness ==
    /\ CalledWith("getBackendCanisterURL")
    /\ dfxNetwork = N_Local
    /\ canisterIdArg = I_abc
    /\ Returned(call.ret, <<"h", "t", "t", "p", "s", ":", "/", "/", "a", "b",
                            "c", ".", "i", "c", "0", ".", "a", "p", "p">>)

\* C2: for every canisterId, when dfxNetwork is not 'local',
\* getFrontendCanisterURL returns 'https://' + canisterId + '.icp0.io', which
\* differs from the backend production URL for the same canisterId.
C2_FrontendProductionURL ==
    (CalledWith("getFrontendCanisterURL") /\ dfxNetwork # S_local) =>
        /\ Returned(call.ret, S_https \o canisterIdArg \o S_icp0io)
        /\ call.ret # getBackendCanisterURL(this, window, canisterIdArg)

\* C3: when dfxNetwork is not 'local', getInternetIdentityURL returns the
\* fixed string 'https://identity.ic0.app' whatever the canisterId argument.
C3_IdentityProductionURL ==
    (CalledWith("getInternetIdentityURL") /\ dfxNetwork # S_local) =>
        Returned(call.ret, S_identity)

C3_Witness ==
    /\ CalledWith("getInternetIdentityURL")
    /\ dfxNetwork = N_ic
    /\ canisterIdArg = I_x1
    /\ Returned(call.ret, S_identity)

\* C4: when dfxNetwork is 'local' and the ambient origin contains
\* 'localhost', getBackendCanisterURL(id) returns
\* 'http://localhost:' + replicaPort + '/?canisterId=' + id, whatever
\* localIPAddress and canisterPort are.
C4_BackendLocalhostURL ==
    (/\ CalledWith("getBackendCanisterURL")
     /\ dfxNetwork = S_local
     /\ OnLocalhost(window)) =>
        Returned(call.ret, S_http \o S_localhost \o <<":">>
                           \o NumberToString(replicaPort) \o S_query
                           \o canisterIdArg)

C4_Witness ==
    /\ CalledWith("getBackendCanisterURL")
    /\ dfxNetwork = S_local
    /\ window = createMockWindow(O_appLocalhost, U_Safari)
    /\ localIPAddress = A_lan
    /\ canisterPort = 8443
    /\ replicaPort = DefaultReplicaPort
    /\ canisterIdArg = I_abc
    /\ Returned(call.ret,
                <<"h", "t", "t", "p", ":", "/", "/", "l", "o", "c", "a", "l",
                  "h", "o", "s", "t", ":", "4", "9", "4", "3", "/", "?", "c",
                  "a", "n", "i", "s", "t", "e", "r", "I", "d", "=", "a", "b",
                  "c">>)

\* C5: when dfxNetwork is 'local' and the ambient origin does not contain
\* 'localhost', getBackendCanisterURL(id) returns 'https://' + localIPAddress
\* + ':' + canisterPort + '/?canisterId=' + id, regardless of the user agent.
C5_BackendExternalURL ==
    (/\ CalledWith("getBackendCanisterURL")
     /\ dfxNetwork = S_local
     /\ HasOrigin(window)
     /\ ~Includes(OriginOf(window), S_localhost)) =>
        Returned(call.ret,
                 HttpsQueryURL(localIPAddress, canisterPort, canisterIdArg))

C5_Witness ==
    /\ CalledWith("getBackendCanisterURL")
    /\ dfxNetwork = S_local
    /\ window = createMockWindow(O_upperLocalhost, U_Chrome)
    /\ localIPAddress = A_lan
    /\ canisterPort = DefaultCanisterPort
    /\ canisterIdArg = I_x1
    /\ Returned(call.ret,
                <<"h", "t", "t", "p", "s", ":", "/", "/", "1", "9", "2", ".",
                  "1", "6", "8", ".", "0", ".", "2", "1", "0", ":", "1", "4",
                  "9", "4", "3", "/", "?", "c", "a", "n", "i", "s", "t", "e",
                  "r", "I", "d", "=", "x", "-", "1">>)

\* C6: isLocalhostSubdomainSupported() returns true if and only if the
\* ambient origin contains 'localhost' and the lower-cased user agent
\* contains 'chrome'; for every other (origin, agent) pair it returns false.
\* No configuration field takes part.
C6_SubdomainSupportIff ==
    call.op = "isLocalhostSubdomainSupported" =>
        /\ Returned(call.ret, TRUE) <=>
               (OnLocalhost(window) /\ IsChrome(window))
        /\ (HasOrigin(window) /\ HasUserAgent(window)) =>
               Returned(call.ret,
                        /\ Includes(OriginOf(window), S_localhost)
                        /\ Includes(ToLowerCase(UserAgentOf(window)),
                                    S_chrome))

C6_Witness ==
    /\ call.op = "isLocalhostSubdomainSupported"
    /\ window = createMockWindow(O_localhost3000, U_mozillaCHROME)
    /\ dfxNetwork = N_ic
    /\ Returned(call.ret, TRUE)

\* C7: when dfxNetwork is 'local', getFrontendCanisterURL(id) returns
\* 'http://' + id + '.localhost:' + replicaPort exactly when
\* isLocalhostSubdomainSupported() is true, and
\* 'https://' + localIPAddress + ':' + canisterPort + '/?canisterId=' + id
\* when it is false; Chrome on a non-localhost origin and Safari on a
\* localhost origin both get the https URL.
C7_FrontendLocalURL ==
    (CalledWith("getFrontendCanisterURL") /\ dfxNetwork = S_local) =>
        LET supported == isLocalhostSubdomainSupported(window)
            subdomain == SubdomainURL(canisterIdArg, replicaPort)
            fallback == HttpsQueryURL(localIPAddress, canisterPort,
                                      canisterIdArg)
        IN  /\ Returned(supported, TRUE) => Returned(call.ret, subdomain)
            /\ Returned(call.ret, subdomain) => Returned(supported, TRUE)
            /\ Returned(supported, FALSE) => Returned(call.ret, fallback)
            /\ window = createMockWindow(O_lan3000, U_Chrome) =>
                   Returned(call.ret, fallback)
            /\ window = createMockWindow(O_localhost3000, U_Safari) =>
                   Returned(call.ret, fallback)
            /\ window = createMockWindow(O_localhost3000, U_Chrome) =>
                   Returned(call.ret, subdomain)

C7_Witness ==
    /\ CalledWith("getFrontendCanisterURL")
    /\ dfxNetwork = S_local
    /\ window = createMockWindow(O_localhost3000, U_Chrome)
    /\ replicaPort = 8000
    /\ canisterIdArg = I_abc
    /\ Returned(call.ret,
                <<"h", "t", "t", "p", ":", "/", "/", "a", "b", "c", ".", "l",
                  "o", "c", "a", "l", "h", "o", "s", "t", ":", "8", "0", "0",
                  "0">>)

\* C8: when dfxNetwork is 'local', getInternetIdentityURL(id) returns
\* 'http://' + id + '.localhost:' + replicaPort exactly when
\* isLocalhostSubdomainSupported() is true, and 'https://' + localIPAddress
\* + ':' + internetIdentityPort + '/?canisterId=' + id when it is false:
\* the identity port, never the canister port.
C8_IdentityLocalURL ==
    (CalledWith("getInternetIdentityURL") /\ dfxNetwork = S_local) =>
        LET supported == isLocalhostSubdomainSupported(window)
            subdomain == SubdomainURL(canisterIdArg, replicaPort)
            fallback == HttpsQueryURL(localIPAddress, internetIdentityPort,
                                      canisterIdArg)
        IN  /\ Returned(supported, TRUE) => Returned(call.ret, subdomain)
            /\ Returned(call.ret, subdomain) => Returned(supported, TRUE)
            /\ Returned(supported, FALSE) => Returned(call.ret, fallback)
            /\ ~Returned(call.ret,
                         HttpsQueryURL(localIPAddress, canisterPort,
                                       canisterIdArg))
            /\ window = createMockWindow(O_localhost3000, U_Safari) =>
                   Returned(call.ret, fallback)
            /\ window = createMockWindow(O_localhost3000, U_Chrome) =>
                   Returned(call.ret, subdomain)

C8_Witness ==
    /\ CalledWith("getInternetIdentityURL")
    /\ dfxNetwork = S_local
    /\ window = createMockWindow(O_localhost3000, U_Firefox)
    /\ localIPAddress = S_localhost
    /\ internetIdentityPort = DefaultInternetIdentityPort
    /\ canisterIdArg = I_abc
    /\ Returned(call.ret,
                <<"h", "t", "t", "p", "s", ":", "/", "/", "l", "o", "c", "a",
                  "l", "h", "o", "s", "t", ":", "2", "4", "9", "4", "3", "/",
                  "?", "c", "a", "n", "i", "s", "t", "e", "r", "I", "d", "=",
                  "a", "b", "c">>)

\* C9: getLocalhostSubdomainCanisterURL(id) returns
\* 'http://' + id + '.localhost:' + replicaPort for every id, every
\* dfxNetwork (production included) and every ambient context (an absent one
\* included).
C9_SubdomainURLUnconditional ==
    CalledWith("getLocalhostSubdomainCanisterURL") =>
        Returned(call.ret, S_http \o canisterIdArg \o <<".">> \o S_localhost
                           \o <<":">> \o NumberToString(replicaPort))

C9_Witness ==
    /\ CalledWith("getLocalhostSubdomainCanisterURL")
    /\ dfxNetwork = N_ic
    /\ window = WindowUndeclared
    /\ replicaPort = DefaultReplicaPort
    /\ canisterIdArg = I_x1
    /\ Returned(call.ret,
                <<"h", "t", "t", "p", ":", "/", "/", "x", "-", "1", ".", "l",
                  "o", "c", "a", "l", "h", "o", "s", "t", ":", "4", "9", "4",
                  "3">>)

\* C10: absence of ambient context never raises an error: when the window
\* object, its location/origin or its navigator/userAgent is missing,
\* isLocalhostSubdomainSupported() returns false, and in local mode
\* getBackendCanisterURL, getFrontendCanisterURL and getInternetIdentityURL
\* return their 'https://' + localIPAddress + ':<port>/?canisterId=' URLs.
C10_AbsentContextTolerated ==
    /\ ~Threw(call.ret)
    /\ (call.op = "isLocalhostSubdomainSupported"
        /\ (~HasOrigin(window) \/ ~HasUserAgent(window))) =>
           Returned(call.ret, FALSE)
    /\ (CalledWith("getBackendCanisterURL") /\ dfxNetwork = S_local
        /\ ~HasOrigin(window)) =>
           Returned(call.ret, HttpsQueryURL(localIPAddress, canisterPort,
                                            canisterIdArg))
    /\ (CalledWith("getFrontendCanisterURL") /\ dfxNetwork = S_local
        /\ (~HasOrigin(window) \/ ~HasUserAgent(window))) =>
           Returned(call.ret, HttpsQueryURL(localIPAddress, canisterPort,
                                            canisterIdArg))
    /\ (CalledWith("getInternetIdentityURL") /\ dfxNetwork = S_local
        /\ (~HasOrigin(window) \/ ~HasUserAgent(window))) =>
           Returned(call.ret, HttpsQueryURL(localIPAddress,
                                            internetIdentityPort,
                                            canisterIdArg))

\* the query named op, evaluated by the manager under the context win
QueryUnder(op, win, id) ==
    CASE op = "getBackendCanisterURL" -> getBackendCanisterURL(this, win, id)
      [] op = "getFrontendCanisterURL" ->
             getFrontendCanisterURL(this, win, id)
      [] op = "getInternetIdentityURL" ->
             getInternetIdentityURL(this, win, id)
      [] op = "getLocalhostSubdomainCanisterURL" ->
             getLocalhostSubdomainCanisterURL(this, id)
      [] op = "isLocalhostSubdomainSupported" ->
             isLocalhostSubdomainSupported(win)

\* C11: in production mode (dfxNetwork not 'local') getBackendCanisterURL,
\* getFrontendCanisterURL and getInternetIdentityURL are independent of the
\* ambient context: under any other context (any origin, any user agent, no
\* window binding at all) the same manager returns the same URL for the same
\* canisterId; since reading a missing `window` throws, this also shows that
\* no ambient state is read.
C11_ProductionIgnoresAmbient ==
    (/\ dfxNetwork # S_local
     /\ call.op \in {"getBackendCanisterURL", "getFrontendCanisterURL",
                     "getInternetIdentityURL"}) =>
        /\ call.ret.kind = "return"
        /\ \A win \in Windows :
               QueryUnder(call.op, win, canisterIdArg) = call.ret

C11_Witness ==
    /\ CalledWith("getFrontendCanisterURL")
    /\ dfxNetwork = N_ic
    /\ window = WindowUndeclared
    /\ canisterIdArg = I_abc
    /\ Returned(call.ret, <<"h", "t", "t", "p", "s", ":", "/", "/", "a", "b",
                            "c", ".", "i", "c", "0", ".", "a", "p", "p">>)
    /\ getFrontendCanisterURL(this,
                              createMockWindow(O_localhost3000, U_Chrome),
                              I_abc) = call.ret

\* C12: a manager constructed without replicaPort, canisterPort or
\* internetIdentityPort uses 4943, 14943 and 24943 respectively, each default
\* applied independently of the others; a supplied port is used verbatim in
\* every URL that contains that port.
C12_PortDefaults ==
    LET rp == IF givenConfig.replicaPort = None
              THEN 4943 ELSE givenConfig.replicaPort[1]
        cp == IF givenConfig.canisterPort = None
              THEN 14943 ELSE givenConfig.canisterPort[1]
        ip == IF givenConfig.internetIdentityPort = None
              THEN 24943 ELSE givenConfig.internetIdentityPort[1]
        id == canisterIdArg
        viaReplica == S_http \o S_localhost \o <<":">> \o NumberToString(rp)
                      \o S_query \o id
    IN  /\ replicaPort = rp
        /\ canisterPort = cp
        /\ internetIdentityPort = ip
        /\ (CalledWith("getLocalhostSubdomainCanisterURL")) =>
               Returned(call.ret, SubdomainURL(id, rp))
        /\ (/\ dfxNetwork = S_local
            /\ call.arg # None
            /\ call.ret.kind = "return") =>
               /\ call.op = "getBackendCanisterURL" =>
                      call.ret.value \in
                          {viaReplica, HttpsQueryURL(localIPAddress, cp, id)}
               /\ call.op = "getFrontendCanisterURL" =>
                      call.ret.value \in
                          {SubdomainURL(id, rp),
                           HttpsQueryURL(localIPAddress, cp, id)}
               /\ call.op = "getInternetIdentityURL" =>
                      call.ret.value \in
                          {SubdomainURL(id, rp),
                           HttpsQueryURL(localIPAddress, ip, id)}

C12_Witness ==
    /\ givenConfig.replicaPort = Some(8000)
    /\ givenConfig.canisterPort = None
    /\ givenConfig.internetIdentityPort = None
    /\ replicaPort = 8000
    /\ canisterPort = 14943
    /\ internetIdentityPort = 24943
    /\ dfxNetwork = S_local
    /\ localIPAddress = A_lan
    /\ window = createMockWindow(O_localhost3000, U_Safari)
    /\ CalledWith("getFrontendCanisterURL")
    /\ canisterIdArg = I_abc
    /\ Returned(call.ret,
                <<"h", "t", "t", "p", "s", ":", "/", "/", "1", "9", "2", ".",
                  "1", "6", "8", ".", "0", ".", "2", "1", "0", ":", "1", "4",
                  "9", "4", "3", "/", "?", "c", "a", "n", "i", "s", "t", "e",
                  "r", "I", "d", "=", "a", "b", "c">>)

\* C17: getBackendCanisterURL never depends on the user agent and never
\* returns the subdomain form: under any context with the same origin and
\* another user agent it returns the same URL, and in local mode that URL is
\* one of the two '/?canisterId=' forms; on a localhost origin with a Chrome
\* agent the backend URL is 'http://localhost:<replicaPort>/?canisterId=<id>'
\* while the frontend URL is 'http://<id>.localhost:<replicaPort>'.
C17_BackendIgnoresUserAgent ==
    CalledWith("getBackendCanisterURL") =>
        LET id == canisterIdArg
            viaReplica == S_http \o S_localhost \o <<":">>
                          \o NumberToString(replicaPort) \o S_query \o id
            viaAddress == HttpsQueryURL(localIPAddress, canisterPort, id)
        IN  /\ \A win \in Windows :
                   (/\ HasOrigin(window) /\ HasOrigin(win)
                    /\ OriginOf(win) = OriginOf(window)) =>
                       getBackendCanisterURL(this, win, id) = call.ret
            /\ (dfxNetwork = S_local /\ call.ret.kind = "return") =>
                   /\ call.ret.value \in {viaReplica, viaAddress}
                   /\ call.ret.value # SubdomainURL(id, replicaPort)
            /\ (/\ dfxNetwork = S_local
                /\ window = createMockWindow(O_localhost3000, U_Chrome)) =>
                   /\ Returned(call.ret, viaReplica)
                   /\ Returned(getFrontendCanisterURL(this, window, id),
                               SubdomainURL(id, replicaPort))

C17_Witness ==
    /\ CalledWith("getBackendCanisterURL")
    /\ dfxNetwork = S_local
    /\ window = createMockWindow(O_localhost3000, U_Chrome)
    /\ replicaPort = 4943
    /\ canisterIdArg = I_abc
    /\ Returned(call.ret,
                <<"h", "t", "t", "p", ":", "/", "/", "l", "o", "c", "a", "l",
                  "h", "o", "s", "t", ":", "4", "9", "4", "3", "/", "?", "c",
                  "a", "n", "i", "s", "t", "e", "r", "I", "d", "=", "a", "b",
                  "c">>)
    /\ Returned(getFrontendCanisterURL(this, window, I_abc),
                <<"h", "t", "t", "p", ":", "/", "/", "a", "b", "c", ".", "l",
                  "o", "c", "a", "l", "h", "o", "s", "t", ":", "4", "9", "4",
                  "3">>)

\* the manager of the second class definition built from the same
\* configuration, localIPAddress taken as its staticIpAddress
staticIpThis ==
    StaticIp_constructor(
        [dfxNetwork |-> givenConfig.dfxNetwork,
         staticIpAddress |-> givenConfig.localIPAddress,
         replicaPort |-> givenConfig.replicaPort,
         canisterPort |-> givenConfig.canisterPort,
         internetIdentityPort |-> givenConfig.internetIdentityPort])

\* C19: the two CanisterManager definitions agree on getFrontendCanisterURL,
\* getInternetIdentityURL, isLocalhostSubdomainSupported and
\* getLocalhostSubdomainCanisterURL over all configs, ids and ambient
\* contexts, and on getBackendCanisterURL they differ exactly when dfxNetwork
\* is 'local' and the origin contains 'localhost', where the second returns
\* the https LAN URL instead of the http localhost URL.
C19_DefinitionsEquivalent ==
    \A id \in CanisterIds :
        /\ StaticIp_getFrontendCanisterURL(staticIpThis, window, id)
               = getFrontendCanisterURL(this, window, id)
        /\ StaticIp_getInternetIdentityURL(staticIpThis, window, id)
               = getInternetIdentityURL(this, window, id)
        /\ StaticIp_isLocalhostSubdomainSupported(window)
               = isLocalhostSubdomainSupported(window)
        /\ StaticIp_getLocalhostSubdomainCanisterURL(staticIpThis, id)
               = getLocalhostSubdomainCanisterURL(this, id)
        /\ (StaticIp_getBackendCanisterURL(staticIpThis, window, id)
               # getBackendCanisterURL(this, window, id))
           <=> (dfxNetwork = S_local /\ OnLocalhost(window))
        /\ (dfxNetwork = S_local /\ OnLocalhost(window)) =>
               /\ Returned(StaticIp_getBackendCanisterURL(staticIpThis,
                                                          window, id),
                           HttpsQueryURL(localIPAddress, canisterPort, id))
               /\ Returned(getBackendCanisterURL(this, window, id),
                           S_http \o S_localhost \o <<":">>
                           \o NumberToString(replicaPort) \o S_query \o id)

\* the same operation with the same argument under the same ambient context
\* as the result kept earlier
SameQueryAsEarlier ==
    /\ earlier.op # "none"
    /\ call.op = earlier.op
    /\ call.arg = earlier.arg
    /\ window = earlier.ctx

\* C13: the resolver holds no mutable state after construction: no step of
\* any sequence of queries changes dfxNetwork, localIPAddress, replicaPort,
\* canisterPort or internetIdentityPort, and a query repeated with the same
\* argument under the same ambient context returns what it returned before,
\* whatever queries and context changes happened in between.
C13_NoMutableState ==
    /\ [](SameQueryAsEarlier => call.ret = earlier.ret)
    /\ [][fields' = fields]_vars

C13_Witness ==
    /\ SameQueryAsEarlier
    /\ call.op = "getInternetIdentityURL"
    /\ dfxNetwork = S_local
    /\ window = createMockWindow(O_localhost3000, U_Safari)
    /\ call.arg = Some(I_abc)
    /\ Returned(earlier.ret,
                <<"h", "t", "t", "p", "s", ":", "/", "/", "1", "9", "2", ".",
                  "1", "6", "8", ".", "0", ".", "2", "1", "0", ":", "2", "4",
                  "9", "4", "3", "/", "?", "c", "a", "n", "i", "s", "t", "e",
                  "r", "I", "d", "=", "a", "b", "c">>)
    /\ call.ret = earlier.ret
    /\ this = constructor(givenConfig)

\* the canisterId of a recorded query ('' for the parameterless one)
ArgOf(q) == IF q.arg = None THEN S_empty ELSE q.arg[1]

\* C16: the ambient context is read at each query, not captured at
\* construction: for a manager constructed once in local mode, a result kept
\* from before a context change is the one for the context then in force and
\* the latest result is the one for the current context; the same manager
\* returns the subdomain URL under localhost/Chrome and the https URL once
\* the context has become localhost/Safari.
C16_ContextReadAtEachQuery ==
    dfxNetwork = S_local =>
        /\ earlier.op # "none" =>
               earlier.ret = QueryUnder(earlier.op, earlier.ctx,
                                        ArgOf(earlier))
        /\ call.op # "none" =>
               call.ret = QueryUnder(call.op, window, ArgOf(call))
        /\ (/\ earlier.op = "getFrontendCanisterURL"
            /\ earlier.ctx = createMockWindow(O_localhost3000, U_Chrome)
            /\ call.op = "getFrontendCanisterURL"
            /\ call.arg = earlier.arg
            /\ window = createMockWindow(O_localhost3000, U_Safari)) =>
               /\ Returned(earlier.ret,
                           SubdomainURL(ArgOf(earlier), replicaPort))
               /\ Returned(call.ret,
                           HttpsQueryURL(localIPAddress, canisterPort,
                                         ArgOf(call)))

C16_Witness ==
    /\ dfxNetwork = S_local
    /\ replicaPort = 4943
    /\ earlier.op = "getFrontendCanisterURL"
    /\ earlier.arg = Some(I_abc)
    /\ earlier.ctx = createMockWindow(O_localhost3000, U_Chrome)
    /\ Returned(earlier.ret,
                <<"h", "t", "t", "p", ":", "/", "/", "a", "b", "c", ".", "l",
                  "o", "c", "a", "l", "h", "o", "s", "t", ":", "4", "9", "4",
                  "3">>)
    /\ window = createMockWindow(O_localhost3000, U_Safari)
    /\ call.op = "getFrontendCanisterURL"
    /\ call.arg = Some(I_abc)
    /\ Returned(call.ret,
                <<"h", "t", "t", "p", "s", ":", "/", "/", "1", "9", "2", ".",
                  "1", "6", "8", ".", "0", ".", "2", "1", "0", ":", "1", "4",
                  "9", "4", "3", "/", "?", "c", "a", "n", "i", "s", "t", "e",
                  "r", "I", "d", "=", "a", "b", "c">>)

\* the actors built by createActor so far
ActorIndexes == 1..Len(actors)

\* the rejection of the root-key fetch has run through the .catch handler
FetchFailureHandled(i) ==
    /\ actors[i].fetchRootKey = "rejected"
    /\ actors[i].caught = "rejected"

\* C14: in local mode, when the root-key fetch started by createActor
\* fails, the failure reaches the caller of createActor: the value the
\* caller was handed carries a promise that rejects with it.
C14_FetchFailureSurfaced ==
    \A i \in ActorIndexes :
        (dfxNetwork = S_local /\ FetchFailureHandled(i)) =>
            actors[i].returnedPromise \in {"fetchRootKey", "caught"}

\* C15: createActor builds its agent with host equal to
\* getBackendCanisterURL(canisterId), fails exactly when that query fails,
\* and a root-key fetch is started on the agent if and only if dfxNetwork
\* is exactly 'local'; on any other network no fetch is ever started.
C15_HostAndFetchOnlyLocal ==
    /\ \A i \in ActorIndexes :
           /\ Returned(getBackendCanisterURL(this, window,
                                             actors[i].canisterId),
                       actors[i].host)
           /\ actors[i].fetchRootKey # "notStarted" <=> dfxNetwork = S_local
           /\ dfxNetwork # S_local =>
                  /\ actors[i].caught = "none"
                  /\ ~actors[i].logged
    /\ CalledWith("createActor") =>
           LET url == getBackendCanisterURL(this, window, canisterIdArg) IN
             IF Threw(url) THEN Threw(call.ret)
             ELSE /\ call.ret.kind = "return"
                  /\ call.ret.value.host = url.value
                  /\ call.ret.value.canisterId = canisterIdArg

C15_Witness ==
    /\ dfxNetwork = S_local
    /\ replicaPort = 4943
    /\ window = createMockWindow(O_localhost3000, U_Chrome)
    /\ Len(actors) = 1
    /\ actors[1].canisterId = I_abc
    /\ actors[1].host =
           <<"h", "t", "t", "p", ":", "/", "/", "l", "o", "c", "a", "l", "h",
             "o", "s", "t", ":", "4", "9", "4", "3", "/", "?", "c", "a", "n",
             "i", "s", "t", "e", "r", "I", "d", "=", "a", "b", "c">>
    /\ actors[1].fetchRootKey = "pending"

\* C18: createActor hands the actor back without waiting for the root-key
\* fetch: in local mode a newly built actor has its fetch still pending,
\* the value handed back is the actor itself and carries neither the
\* promise of the fetch nor the one .catch returned, and the error rethrown
\* by the handler rejects that detached promise, unhandled. The caller can
\* use the actor while the fetch is pending or after it has failed.
C18_ReturnsBeforeFetchSettles ==
    /\ [][\A i \in (1..Len(actors')) \ ActorIndexes :
              /\ call'.ret.kind = "return"
              /\ call'.ret.value.promise = "none"
              /\ dfxNetwork = S_local =>
                     /\ actors'[i].fetchRootKey = "pending"
                     /\ actors'[i].caught = "pending"]_vars
    /\ [](\A i \in ActorIndexes :
              /\ actors[i].returnedPromise = "none"
              /\ FetchFailureHandled(i) =>
                     /\ actors[i].logged
                     /\ actors[i].unhandledRejection)

C18_Witness ==
    /\ dfxNetwork = S_local
    /\ Len(actors) = 2
    /\ actors[1].fetchRootKey = "pending"
    /\ actors[1].usedWhile = "pending"
    /\ FetchFailureHandled(2)
    /\ actors[2].usedWhile = "rejected"
    /\ actors[2].unhandledRejection

=============================================================================
